---- MODULE Spec2Model ----
(***************************************************************************)
(* Model of sas_chat_app.py: retrieve_relevant_chunks, build_context and   *)
(* chat_with_sas_assistant.                                                *)
(*                                                                         *)
(* A Python string is modelled as a sequence of tokens.  A literal piece   *)
(* of an f-string is one token, a newline is the token NL, and the value   *)
(* of a field is a (possibly empty) sequence of content tokens, so that    *)
(* the empty string is the empty sequence and concatenation is \o.         *)
(* Integers are rendered digit by digit; a score is a binary fraction      *)
(* counted in sixteenths, rendered by the rounding of the format '.3f'.    *)
(***************************************************************************)
EXTENDS Integers, Sequences, FiniteSets, TLC

VARIABLES pc, mode, top_k, indexSize, matches, i, relevant_chunks,
          context, prompt, answer, result, error, calls

vars == <<pc, mode, top_k, indexSize, matches, i, relevant_chunks,
          context, prompt, answer, result, error, calls>>

(* ------------------------------ bounds -------------------------------- *)

\* largest top_k of a direct call of retrieve_relevant_chunks
MaxTopK == 2
\* largest number of entries the vector index holds
MaxIndex == 3

(* --------------------------- text helpers ----------------------------- *)

NL == "\n"

Min(a, b) == IF a < b THEN a ELSE b

Abs(n) == IF n < 0 THEN -n ELSE n

DigitChars == <<"0", "1", "2", "3", "4", "5", "6", "7", "8", "9">>

IsDigit(t) == \E d \in 1..10 : DigitChars[d] = t

DigitVal(t) == (CHOOSE d \in 1..10 : DigitChars[d] = t) - 1

\* str(n) of a non-negative integer, most significant digit first
RECURSIVE NatStr(_)
NatStr(n) ==
    IF n < 10 THEN <<DigitChars[n + 1]>>
    ELSE NatStr(n \div 10) \o <<DigitChars[(n % 10) + 1]>>

\* str(n) of an integer
IntStr(n) == IF n < 0 THEN <<"-">> \o NatStr(-n) ELSE NatStr(n)

\* thousandths of |k/16| rounded as '.3f' rounds the exact binary value:
\* to nearest, and an exact tie to the even neighbour
RoundThousandths(k) ==
    LET n == Abs(k) * 125
        q == n \div 2
    IN  IF n % 2 = 0 THEN q
        ELSE IF q % 2 = 0 THEN q ELSE q + 1

\* mutant: f"{score:.2f}"
Format2f(k) ==
    LET n == Abs(k) * 25
        q == n \div 4
        t == IF (n % 4) * 2 > 4 \/ ((n % 4) * 2 = 4 /\ q % 2 = 1) THEN q + 1 ELSE q
    IN  (IF k < 0 THEN <<"-">> ELSE <<>>)
        \o NatStr(t \div 100) \o <<".">>
        \o <<DigitChars[((t \div 10) % 10) + 1], DigitChars[(t % 10) + 1]>>

\* f"{score:.3f}" for score = k/16
Format3f(k) ==
    LET t == RoundThousandths(k)
        f == t % 1000
    IN  (IF k < 0 THEN <<"-">> ELSE <<>>)
        \o NatStr(t \div 1000) \o <<".">>
        \o <<DigitChars[(f \div 100) + 1], DigitChars[((f \div 10) % 10) + 1],
             DigitChars[(f % 10) + 1]>>

(* ---------------------------- environment ----------------------------- *)

Message == <<"How to merge datasets in SAS?">>

\* os.path.exists(filepath)
FileExists(p) == p \in {"a.sas", "empty.sas", "locked.sas", "latin1.sas"}

\* the exception open()/read() raises on the file, "none" when it reads
OpenError(p) ==
    CASE p = "locked.sas" -> "PermissionError"
      [] p = "latin1.sas" -> "UnicodeDecodeError"
      [] OTHER -> "none"

\* f.read() of a readable file
FileText(p) ==
    IF p = "a.sas" THEN <<"%macro merge_ds;", NL, "data all;", NL, "%mend;">>
    ELSE <<>>

RequiredKeys == {"chunk_type", "name", "code", "explanation"}

OptionalKeys == {"filename", "line_start", "line_end"}

Base ==
    [chunk_type |-> <<"macro">>, name |-> <<"merge_ds">>,
     code |-> <<"data all;", NL, "run;">>, explanation |-> <<"merges">>,
     filename |-> <<"merge.sas">>, line_start |-> 3, line_end |-> 12,
     filepath |-> "a.sas"]

Drop(md, ks) == [k \in (DOMAIN md) \ ks |-> md[k]]

\* the metadata mappings the index may hold
MetaPool ==
    {Base}
    \cup {Drop(Base, {k}) : k \in RequiredKeys}
    \cup {Drop(Base, OptionalKeys), Drop(Base, {"filepath"}),
          Drop(Base, {"line_end"})}
    \cup {[Base EXCEPT !.filepath = p] :
            p \in {"", "gone.sas", "locked.sas", "latin1.sas", "empty.sas"}}
    \cup {[Base EXCEPT !.name = <<>>, !.chunk_type = <<>>, !.code = <<>>,
                       !.explanation = <<>>, !.filepath = "gone.sas"],
          Drop([Base EXCEPT !.filepath = "locked.sas"], {"name"})}

\* similarity scores, in sixteenths: -0.1875, 0.0625, 0.3125, 0.75, 1.0
ScoreOf(md) ==
    CASE "filepath" \notin DOMAIN md -> -3
      [] "name" \notin DOMAIN md -> 5
      [] md.filepath = "gone.sas" -> 16
      [] md.filepath = "a.sas" -> 12
      [] OTHER -> 1

\* the matches the index may hold
Pool == {[score |-> ScoreOf(md), metadata |-> md] : md \in MetaPool}

(* ------------------------ retrieve_relevant_chunks -------------------- *)

\* top_k of the call made by chat_with_sas_assistant
DefaultTopK == 3

\* the value of a turn that returned nothing
NoResult == <<>>

\* index.query(vector, top_k, include_metadata): the stored entries nearest
\* to the query come first and at most top_k of them are returned
QueryIndex(entries, k) == SubSeq(entries, 1, Min(k, Len(entries)))

\* match['metadata'].get(key, default)
GetOr(md, key, default) == IF key \in DOMAIN md THEN md[key] ELSE default

\* the placeholder of the except branch
FileNotAccessible == <<"File not accessible">>

\* mutant: "except OSError", which lets a decode error through
CaughtOSErrorOnly(exc) == exc = "PermissionError"

\* "except Exception" catches every exception open() and read() raise
Caught(exc) == exc \in {"PermissionError", "UnicodeDecodeError"}

\* whether open(filepath) is attempted
OpensFile(filepath) == filepath # "" /\ FileExists(filepath)

\* mutant: open() attempted without the os.path.exists test
ReadFullFileNoExistsCheck(filepath) ==
    IF filepath # ""
    THEN IF FileExists(filepath) /\ OpenError(filepath) = "none"
         THEN [content |-> FileText(filepath), raised |-> "none"]
         ELSE [content |-> FileNotAccessible, raised |-> "none"]
    ELSE [content |-> <<>>, raised |-> "none"]

\* full_file_content of one match, and the exception leaving the block
ReadFullFile(filepath) ==
    IF OpensFile(filepath)
    THEN IF OpenError(filepath) = "none"
         THEN [content |-> FileText(filepath), raised |-> "none"]
         ELSE IF Caught(OpenError(filepath))
              THEN [content |-> FileNotAccessible, raised |-> "none"]
              ELSE [content |-> <<>>, raised |-> OpenError(filepath)]
    ELSE [content |-> <<>>, raised |-> "none"]

\* mutant: name read with .get('name', '')
SubscriptedKeysNameOptional == RequiredKeys \ {"name"}

\* the keys the dict literal reads with match['metadata'][key]
SubscriptedKeys == RequiredKeys

\* whether building the dict raises KeyError
RaisesKeyError(md) == SubscriptedKeys \ (DOMAIN md) # {}

\* mutant: the 0-based position of enumerate kept as the rank
RankZeroBased(pos) == pos

\* 'rank': i + 1, for the 0-based position i of enumerate
RankOf(pos) == pos + 1

\* the dict appended to relevant_chunks
Fragment(pos, match, full_file_content) ==
    [rank |-> RankOf(pos),
     score |-> match.score,
     chunk_type |-> GetOr(match.metadata, "chunk_type", <<>>),
     name |-> GetOr(match.metadata, "name", <<>>),
     code |-> GetOr(match.metadata, "code", <<>>),
     explanation |-> GetOr(match.metadata, "explanation", <<>>),
     filename |-> GetOr(match.metadata, "filename", <<>>),
     line_start |-> GetOr(match.metadata, "line_start", 0),
     line_end |-> GetOr(match.metadata, "line_end", 0),
     full_file_content |-> full_file_content]

(* ----------------------------- build_context -------------------------- *)

\* '=' * 70
Sep70 == "======================================================================"

LineRange(chunk) ==
    <<" (Lines ">> \o IntStr(chunk.line_start) \o <<"-">>
    \o IntStr(chunk.line_end) \o <<")", NL>>

SectionHeader(chunk) ==
    <<NL, Sep70, NL>>
    \o <<"CHUNK ">> \o IntStr(chunk.rank) \o <<": ">> \o chunk.chunk_type
    \o <<" - ">> \o chunk.name \o <<NL>>
    \o <<"File: ">> \o chunk.filename \o LineRange(chunk)
    \o <<Sep70, NL>>

\* mutant: the full-file part emitted without the test of its content
FullFilePartAlways(chunk) ==
    <<NL, "--- FULL FILE CONTEXT ---", NL>> \o chunk.full_file_content \o <<NL>>

FullFilePart(chunk) ==
    IF chunk.full_file_content # <<>>
    THEN <<NL, "--- FULL FILE CONTEXT ---", NL>> \o chunk.full_file_content
         \o <<NL>>
    ELSE <<>>

\* mutant: the explanation line left out when the explanation is empty
SpecificPartSkipEmpty(chunk) ==
    <<NL, "--- SPECIFIC CHUNK ---", NL>>
    \o (IF chunk.explanation = <<>> THEN <<>>
        ELSE <<"Explanation: ">> \o chunk.explanation \o <<NL>>)
    \o <<"Code:", NL>> \o chunk.code \o <<NL>>

SpecificPart(chunk) ==
    <<NL, "--- SPECIFIC CHUNK ---", NL>>
    \o <<"Explanation: ">> \o chunk.explanation \o <<NL>>
    \o <<"Code:", NL>> \o chunk.code \o <<NL>>

Section(chunk) == SectionHeader(chunk) \o FullFilePart(chunk) \o SpecificPart(chunk)

\* mutant: a placeholder returned for an empty Fragment sequence
RECURSIVE JoinSections(_)
JoinSections(chunks) ==
    IF chunks = <<>> THEN <<>>
    ELSE Section(Head(chunks)) \o JoinSections(Tail(chunks))

build_context_placeholder(chunks) ==
    IF chunks = <<>> THEN <<"No relevant chunks found.">>
    ELSE JoinSections(chunks)

RECURSIVE build_context(_)
build_context(chunks) ==
    IF chunks = <<>> THEN <<>>
    ELSE Section(Head(chunks)) \o build_context(Tail(chunks))

(* ------------------------ chat_with_sas_assistant --------------------- *)

BuildPrompt(ctx, message) ==
    <<"You are a SAS programming expert assistant. Answer the user's question based on the following relevant SAS code chunks.",
      NL, NL, "RETRIEVED CONTEXT:", NL>>
    \o ctx
    \o <<NL, NL, "USER QUESTION: ">> \o message
    \o <<NL, NL, "Provide a clear, helpful answer based on the context above. Reference specific code examples when relevant.">>

\* the emoji of the two literals are left out and the backquotes around the
\* name are written as quotes
CitationHeader == <<NL, NL, "---", NL, "**Retrieved Chunks:**", NL>>

CitationEntry(chunk) ==
    <<"- ">> \o chunk.chunk_type \o <<": '">> \o chunk.name
    \o <<"' (score: ">> \o Format3f(chunk.score) \o <<")", NL>>
    \o <<"  [file] ">> \o chunk.filename \o LineRange(chunk)

\* mutant: the citations listed last Fragment first
RECURSIVE CitationEntriesReversed(_)
CitationEntriesReversed(chunks) ==
    IF chunks = <<>> THEN <<>>
    ELSE CitationEntriesReversed(Tail(chunks)) \o CitationEntry(Head(chunks))

RECURSIVE CitationEntries(_)
CitationEntries(chunks) ==
    IF chunks = <<>> THEN <<>>
    ELSE CitationEntry(Head(chunks)) \o CitationEntries(Tail(chunks))

\* chunks_info
ChunksInfo(chunks) == CitationHeader \o CitationEntries(chunks)

\* answer + chunks_info
Compose(body, chunks) == body \o ChunksInfo(chunks)

\* response.choices[0].message.content of the generation service
AnswerBodies ==
    {<<>>,
     <<"Use a MERGE statement.", NL, "See merge_ds.">>,
     <<"**Retrieved Chunks:**", NL, "- ", "none", NL>>}

\* mutant: the failed call is made again
RetryOnServiceError(stage) == stage

\* where a raised exception of an external call leaves the turn: no
\* try/except surrounds the calls, the exception propagates
OnServiceError(stage) == "failed"

(* ------------------------------- actions ------------------------------ *)

Init ==
    /\ pc = "idle"
    /\ mode = "none"
    /\ top_k = 0
    /\ indexSize = 0
    /\ matches = <<>>
    /\ i = 0
    /\ relevant_chunks = <<>>
    /\ context = <<>>
    /\ prompt = <<>>
    /\ answer = <<>>
    /\ result = NoResult
    /\ error = "none"
    /\ calls = <<>>

\* the host UI calls chat_with_sas_assistant(message, history)
StartChat ==
    /\ pc = "idle"
    /\ pc' = "embed"
    /\ mode' = "chat"
    /\ top_k' = DefaultTopK
    /\ UNCHANGED <<indexSize, matches, i, relevant_chunks, context, prompt,
                   answer, result, error, calls>>

\* a direct call retrieve_relevant_chunks(query, top_k = k)
StartRetrieve ==
    /\ pc = "idle"
    /\ \E k \in 0..MaxTopK :
         /\ top_k' = k
         /\ pc' = "embed"
         /\ mode' = "retrieve"
    /\ UNCHANGED <<indexSize, matches, i, relevant_chunks, context, prompt,
                   answer, result, error, calls>>

\* client.embeddings.create(...)
Embed ==
    /\ pc = "embed"
    /\ calls' = Append(calls, "embedding")
    /\ \/ /\ pc' = "query"
          /\ error' = error
       \/ /\ pc' = OnServiceError("embed")
          /\ error' = "EmbeddingError"
    /\ UNCHANGED <<mode, top_k, indexSize, matches, i, relevant_chunks,
                   context, prompt, answer, result>>

\* index.query(...)
IndexQuery ==
    /\ pc = "query"
    /\ calls' = Append(calls, "index")
    /\ \/ /\ \E n \in 0..MaxIndex :
               \E entries \in [1..n -> Pool] :
                 /\ indexSize' = n
                 /\ matches' = QueryIndex(entries, top_k)
          /\ pc' = "loop"
          /\ error' = error
       \/ /\ pc' = OnServiceError("query")
          /\ error' = "IndexError"
          /\ UNCHANGED <<indexSize, matches>>
    /\ UNCHANGED <<mode, top_k, i, relevant_chunks, context, prompt, answer,
                   result>>

\* one iteration of the for loop over results['matches']
ProcessMatch ==
    /\ pc = "loop"
    /\ i < Len(matches)
    /\ LET match == matches[i + 1]
           filepath == GetOr(match.metadata, "filepath", "")
           rd == ReadFullFile(filepath)
       IN  /\ calls' = IF OpensFile(filepath) THEN Append(calls, "read")
                       ELSE calls
           /\ IF rd.raised # "none"
              THEN /\ pc' = "failed"
                   /\ error' = rd.raised
                   /\ UNCHANGED <<i, relevant_chunks>>
              ELSE IF RaisesKeyError(match.metadata)
              THEN /\ pc' = "failed"
                   /\ error' = "KeyError"
                   /\ UNCHANGED <<i, relevant_chunks>>
              ELSE /\ relevant_chunks' =
                        Append(relevant_chunks, Fragment(i, match, rd.content))
                   /\ i' = i + 1
                   /\ UNCHANGED <<pc, error>>
    /\ UNCHANGED <<mode, top_k, indexSize, matches, context, prompt, answer,
                   result>>

\* return relevant_chunks, to the caller of a direct call
ReturnChunks ==
    /\ pc = "loop"
    /\ i = Len(matches)
    /\ mode = "retrieve"
    /\ pc' = "returned"
    /\ UNCHANGED <<mode, top_k, indexSize, matches, i, relevant_chunks,
                   context, prompt, answer, result, error, calls>>

\* return relevant_chunks to chat_with_sas_assistant, which builds the
\* context and the prompt
BuildContext ==
    /\ pc = "loop"
    /\ i = Len(matches)
    /\ mode = "chat"
    /\ context' = build_context(relevant_chunks)
    /\ prompt' = BuildPrompt(context', Message)
    /\ pc' = "generate"
    /\ UNCHANGED <<mode, top_k, indexSize, matches, i, relevant_chunks,
                   answer, result, error, calls>>

\* client.chat.completions.create(...), then the citation block and return
Generate ==
    /\ pc = "generate"
    /\ calls' = Append(calls, "generation")
    /\ \/ /\ \E body \in AnswerBodies :
               /\ answer' = body
               /\ result' = Compose(body, relevant_chunks)
          /\ pc' = "done"
          /\ error' = error
       \/ /\ pc' = OnServiceError("generate")
          /\ error' = "GenerationError"
          /\ UNCHANGED <<answer, result>>
    /\ UNCHANGED <<mode, top_k, indexSize, matches, i, relevant_chunks,
                   context, prompt>>

Next ==
    \/ StartChat
    \/ StartRetrieve
    \/ Embed
    \/ IndexQuery
    \/ ProcessMatch
    \/ ReturnChunks
    \/ BuildContext
    \/ Generate

Spec == Init /\ [][Next]_vars

(* --------------------------- reading text back ------------------------ *)

Positions(s, tok) == {j \in 1..Len(s) : s[j] = tok}

Count(s, tok) == Cardinality(Positions(s, tok))

\* the n-th smallest element of a set of positions
Nth(S, n) == CHOOSE x \in S : Cardinality({y \in S : y < x}) = n - 1

\* first position of tok at or after from, 0 when there is none
FirstPos(s, tok, from) ==
    LET after == {j \in Positions(s, tok) : j >= from}
    IN  IF after = {} THEN 0 ELSE Nth(after, 1)

LastPos(s, tok) ==
    LET all == Positions(s, tok)
    IN  IF all = {} THEN 0 ELSE Nth(all, Cardinality(all))

Absent == <<"<absent>">>

\* the tokens between the first a and the first b after it
Between(s, a, b) ==
    LET pa == FirstPos(s, a, 1)
        pb == IF pa = 0 THEN 0 ELSE FirstPos(s, b, pa + 1)
    IN  IF pa = 0 \/ pb = 0 THEN Absent ELSE SubSeq(s, pa + 1, pb - 1)

\* the tokens after the first a
After(s, a) ==
    LET pa == FirstPos(s, a, 1)
    IN  IF pa = 0 THEN Absent ELSE SubSeq(s, pa + 1, Len(s))

\* the lines of a text: the runs of tokens the newlines end
RECURSIVE LinesOf(_)
LinesOf(s) ==
    IF s = <<>> THEN <<>>
    ELSE LET p == FirstPos(s, NL, 1)
         IN  IF p = 0 THEN <<s>>
             ELSE <<SubSeq(s, 1, p - 1)>> \o LinesOf(SubSeq(s, p + 1, Len(s)))

\* the number of sections of a text: each opens with a CHUNK header
NumSections(text) == Count(text, "CHUNK ")

\* section n of a text, from its CHUNK header to the next section's
\* leading separator (or to bound, the end of the context)
SectionOf(text, n, bound) ==
    LET starts == Positions(text, "CHUNK ")
        from == Nth(starts, n)
        to == IF n < Cardinality(starts) THEN Nth(starts, n + 1) - 4 ELSE bound
    IN  SubSeq(text, from, to)

SecRank(sec) == Between(sec, "CHUNK ", ": ")
SecType(sec) == Between(sec, ": ", " - ")
SecName(sec) ==
    LET rest == After(sec, " - ")
    IN  IF rest = Absent THEN Absent
        ELSE SubSeq(rest, 1, FirstPos(rest, NL, 1) - 1)
SecExplanation(sec) == Between(sec, "Explanation: ", NL)
SecCode(sec) ==
    LET p == FirstPos(sec, "Code:", 1)
    IN  IF p = 0 THEN Absent ELSE SubSeq(sec, p + 2, Len(sec) - 1)

\* the citation block of a returned string: what follows the last title
CitationLines(text) ==
    LET p == LastPos(text, "**Retrieved Chunks:**")
    IN  IF p = 0 THEN Absent ELSE LinesOf(SubSeq(text, p + 2, Len(text)))

EntryType(line) == Between(line, "- ", ": '")
EntryName(line) == Between(line, ": '", "' (score: ")
EntryScore(line) == Between(line, "' (score: ", ")")

\* digits, a point and exactly three digits, after an optional sign
IsThreeDecimals(ts) ==
    LET body == IF ts # <<>> /\ ts[1] = "-" THEN Tail(ts) ELSE ts
        dot == FirstPos(body, ".", 1)
    IN  /\ dot >= 2
        /\ Len(body) = dot + 3
        /\ \A j \in (1..Len(body)) \ {dot} : IsDigit(body[j])

RECURSIVE DigitsValue(_)
DigitsValue(ds) ==
    IF ds = <<>> THEN 0
    ELSE 10 * DigitsValue(SubSeq(ds, 1, Len(ds) - 1)) + DigitVal(ds[Len(ds)])

\* the value of a three-decimal numeral, in thousandths
Thousandths(ts) ==
    LET neg == ts # <<>> /\ ts[1] = "-"
        body == IF neg THEN Tail(ts) ELSE ts
        dot == FirstPos(body, ".", 1)
        v == 1000 * DigitsValue(SubSeq(body, 1, dot - 1))
             + DigitsValue(SubSeq(body, dot + 1, Len(body)))
    IN  IF neg THEN -v ELSE v

(* ------------------------------- claims ------------------------------- *)

\* the for loop ran to its end and retrieve_relevant_chunks returned
Retrieved == pc \in {"returned", "generate", "done"} \/ error = "GenerationError"

\* build_context returned
ContextBuilt == pc \in {"generate", "done"} \/ error = "GenerationError"

\* C1: retrieve returns one Fragment per match the index returned, in the
\* index's order, with ranks 1, 2, ..., n and n <= top_k; n = top_k when the
\* index holds at least top_k entries, and n is the number of entries when
\* it holds fewer.
C1_RanksFollowIndexOrder ==
    /\ Len(relevant_chunks) <= Len(matches)
    /\ \A n \in 1..Len(relevant_chunks) :
         /\ relevant_chunks[n].rank = n
         /\ relevant_chunks[n].score = matches[n].score
         /\ relevant_chunks[n].name = matches[n].metadata.name
         /\ relevant_chunks[n].code = matches[n].metadata.code
    /\ Retrieved =>
         /\ Len(relevant_chunks) = Len(matches)
         /\ Len(relevant_chunks) <= top_k
         /\ indexSize >= top_k => Len(relevant_chunks) = top_k
         /\ indexSize < top_k => Len(relevant_chunks) = indexSize

\* two matches for top_k = 3, and a truncated result
C1_Witness ==
    /\ pc = "generate"
    /\ top_k = 3
    /\ indexSize = 2
    /\ Len(relevant_chunks) = 2
    /\ relevant_chunks[1].score # relevant_chunks[2].score

\* the file status of the match a Fragment was built from
PathOf(n) == GetOr(matches[n].metadata, "filepath", "")

\* C2 as stated: full_file_content is empty whenever the filepath is not
\* recorded, the file does not exist or the file cannot be read, and is
\* non-empty only when the file's text was read.
C2_EmptyWhenUnreadable ==
    \A n \in 1..Len(relevant_chunks) :
      LET p == PathOf(n)
          wasRead == OpensFile(p) /\ OpenError(p) = "none"
      IN  /\ ~wasRead => relevant_chunks[n].full_file_content = <<>>
          /\ relevant_chunks[n].full_file_content # <<>> => wasRead

\* C2 amended: full_file_content is empty when the filepath is not recorded
\* (or is empty) or the file does not exist; it is the placeholder
\* "File not accessible" when the file exists and opening or reading it
\* fails; otherwise it is the file's text (empty for an empty file).
C2_PlaceholderWhenUnreadable ==
    \A n \in 1..Len(relevant_chunks) :
      LET p == PathOf(n)
          ffc == relevant_chunks[n].full_file_content
      IN  /\ ("filepath" \notin DOMAIN matches[n].metadata \/ p = ""
                \/ ~FileExists(p)) => ffc = <<>>
          /\ (p # "" /\ FileExists(p) /\ OpenError(p) # "none")
                => ffc = <<"File not accessible">>
          /\ (p # "" /\ FileExists(p) /\ OpenError(p) = "none")
                => ffc = FileText(p)

C2_Witness ==
    /\ Retrieved
    /\ \E n \in 1..Len(relevant_chunks) :
         /\ PathOf(n) = "latin1.sas"
         /\ relevant_chunks[n].full_file_content = <<"File not accessible">>
    /\ \E n \in 1..Len(relevant_chunks) :
         /\ PathOf(n) = "gone.sas"
         /\ relevant_chunks[n].full_file_content = <<>>

\* a match whose file is not recorded, does not exist or fails to read
Degraded(n) ==
    LET p == PathOf(n)
    IN  ~(OpensFile(p) /\ OpenError(p) = "none")

\* C3: a file-read failure never aborts the request: for every match whose
\* filepath is absent, names a nonexistent file or fails on open or read,
\* retrieve goes on and returns a Fragment built from the match's metadata,
\* and the answer's citation for that Fragment is rendered.
C3_ReadFailureNeverAborts ==
    /\ error \in {"none", "EmbeddingError", "IndexError", "KeyError",
                  "GenerationError"}
    /\ (pc = "failed" /\ error = "KeyError") =>
          (i < Len(matches) /\ RequiredKeys \ DOMAIN matches[i + 1].metadata # {})
    /\ \A n \in 1..Len(matches) :
         (Degraded(n) /\ RequiredKeys \subseteq DOMAIN matches[n].metadata
            /\ (n <= i \/ Retrieved)) =>
           /\ n <= Len(relevant_chunks)
           /\ relevant_chunks[n].name = matches[n].metadata.name
           /\ relevant_chunks[n].chunk_type = matches[n].metadata.chunk_type
           /\ pc = "done" =>
                /\ Len(CitationLines(result)) >= 2 * n
                /\ EntryName(CitationLines(result)[2 * n - 1])
                     = matches[n].metadata.name

C3_Witness ==
    /\ pc = "done"
    /\ Len(matches) = 3
    /\ PathOf(1) = "locked.sas"
    /\ PathOf(2) = "gone.sas"
    /\ "filepath" \notin DOMAIN matches[3].metadata

\* C4: if a match lacks one of chunk_type, name, code, explanation the whole
\* request fails: retrieve returns no Fragment sequence, the match is not
\* skipped, no default is substituted, no generation call or answer
\* follows.  Missing filename, line_start, line_end never cause failure and
\* take the defaults '' / 0 / 0.
C4_MissingRequiredIsFatal ==
    /\ \A n \in 1..Len(relevant_chunks) :
         /\ RequiredKeys \subseteq DOMAIN matches[n].metadata
         /\ "filename" \notin DOMAIN matches[n].metadata
              => relevant_chunks[n].filename = <<>>
         /\ "line_start" \notin DOMAIN matches[n].metadata
              => relevant_chunks[n].line_start = 0
         /\ "line_end" \notin DOMAIN matches[n].metadata
              => relevant_chunks[n].line_end = 0
    /\ (\E n \in 1..Len(matches) :
          RequiredKeys \ DOMAIN matches[n].metadata # {}) =>
         /\ ~Retrieved
         /\ Count(calls, "generation") = 0
         /\ result = NoResult
         /\ answer = <<>>
    /\ (pc = "loop" /\ i < Len(matches)
          /\ RequiredKeys \subseteq DOMAIN matches[i + 1].metadata)
         => ENABLED (ProcessMatch /\ i' = i + 1)
    /\ (pc = "loop" /\ i < Len(matches)
          /\ RequiredKeys \ DOMAIN matches[i + 1].metadata # {})
         => ENABLED (ProcessMatch /\ pc' = "failed" /\ error' = "KeyError")

C4_Witness ==
    /\ pc = "failed"
    /\ error = "KeyError"
    /\ i = 2
    /\ OptionalKeys \cap DOMAIN matches[1].metadata = {}
    /\ "name" \notin DOMAIN matches[3].metadata

\* C5: the output of build_context has exactly as many sections as there
\* are Fragments, in input order, and section n carries the rank,
\* chunk_type and name of Fragment n with its explanation and code, whether
\* or not a field is empty.
C5_OneSectionPerFragment ==
    ContextBuilt =>
      /\ NumSections(context) = Len(relevant_chunks)
      /\ relevant_chunks # <<>> =>
           SubSeq(context, 1, 4) = <<NL, Sep70, NL, "CHUNK ">>
      /\ \A n \in 1..Len(relevant_chunks) :
           LET sec == SectionOf(context, n, Len(context))
               chunk == relevant_chunks[n]
           IN  /\ SecRank(sec) = IntStr(n)
               /\ SecRank(sec) = IntStr(chunk.rank)
               /\ SecType(sec) = chunk.chunk_type
               /\ SecName(sec) = chunk.name
               /\ SecExplanation(sec) = chunk.explanation
               /\ SecCode(sec) = chunk.code

C5_Witness ==
    /\ ContextBuilt
    /\ Len(relevant_chunks) = 3
    /\ relevant_chunks[2].name = <<>>
    /\ relevant_chunks[2].explanation = <<>>
    /\ relevant_chunks[3].name # <<>>

\* C6: the section of a Fragment whose full_file_content is empty has no
\* "FULL FILE CONTEXT" part; the section of a Fragment whose
\* full_file_content is non-empty has it exactly once, before the
\* explanation and the code.
C6_FullFilePartIffContent ==
    ContextBuilt =>
      \A n \in 1..Len(relevant_chunks) :
        LET sec == SectionOf(context, n, Len(context))
            chunk == relevant_chunks[n]
            p == FirstPos(sec, "--- FULL FILE CONTEXT ---", 1)
        IN  /\ chunk.full_file_content = <<>> =>
                 Count(sec, "--- FULL FILE CONTEXT ---") = 0
            /\ chunk.full_file_content # <<>> =>
                 /\ Count(sec, "--- FULL FILE CONTEXT ---") = 1
                 /\ p < FirstPos(sec, "--- SPECIFIC CHUNK ---", 1)
                 /\ p < FirstPos(sec, "Explanation: ", 1)
                 /\ p < FirstPos(sec, "Code:", 1)
                 /\ SubSeq(sec, p + 2, p + 1 + Len(chunk.full_file_content))
                      = chunk.full_file_content

C6_Witness ==
    /\ ContextBuilt
    /\ Len(relevant_chunks) = 2
    /\ relevant_chunks[1].full_file_content = <<>>
    /\ relevant_chunks[2].full_file_content # <<>>

\* the returned string ends with the citation block the title opens
EndsWithCitationBlock ==
    LET p == LastPos(result, "**Retrieved Chunks:**")
    IN  /\ p >= 5
        /\ SubSeq(result, p - 4, p + 1) = CitationHeader
        /\ SubSeq(result, 1, p - 5) = answer
        /\ result[Len(result)] = NL

\* line, of the citation block, names Fragment n and gives its score to
\* three decimal places
CitesFragment(line, n) ==
    LET chunk == relevant_chunks[n]
        sc == EntryScore(line)
    IN  /\ EntryName(line) = chunk.name
        /\ IsThreeDecimals(sc)
        /\ 2 * Thousandths(sc) - 125 * chunk.score \in -1..1

\* C7 as stated: the output of compose ends with a citation block whose
\* line count equals the number of Fragments, each line holding that
\* Fragment's name and its score to 3 decimal places.
C7_OneLinePerFragment ==
    pc = "done" =>
      /\ EndsWithCitationBlock
      /\ Len(CitationLines(result)) = Len(relevant_chunks)
      /\ \A n \in 1..Len(relevant_chunks) :
           CitesFragment(CitationLines(result)[n], n)

\* C7 amended: the output ends with a citation block of two lines per
\* Fragment: the first holds the Fragment's chunk_type, name and score to
\* 3 decimal places, the second its filename and line range.
C7_TwoLinesPerFragment ==
    pc = "done" =>
      /\ EndsWithCitationBlock
      /\ Len(CitationLines(result)) = 2 * Len(relevant_chunks)
      /\ \A n \in 1..Len(relevant_chunks) :
           LET first == CitationLines(result)[2 * n - 1]
               second == CitationLines(result)[2 * n]
               chunk == relevant_chunks[n]
           IN  /\ CitesFragment(first, n)
               /\ EntryType(first) = chunk.chunk_type
               /\ Between(second, "  [file] ", " (Lines ") = chunk.filename
               /\ After(second, " (Lines ")
                    = IntStr(chunk.line_start) \o <<"-">>
                      \o IntStr(chunk.line_end) \o <<")">>

C7_Witness ==
    /\ pc = "done"
    /\ Len(relevant_chunks) = 3
    /\ answer # <<>>
    /\ relevant_chunks[1].score = -3
    /\ relevant_chunks[2].score = 1
    /\ relevant_chunks[3].score = 16

\* the context the generation service was sent: the sections of the prompt
PromptBound == FirstPos(prompt, "USER QUESTION: ", 1) - 3

\* C8: the citation list of an Answer has exactly one entry per Fragment
\* used to build the Context Block sent to the generation service, in the
\* order of the Context Block's sections and of the ranks, whatever the
\* generated answer body is.
C8_CitationsFollowContext ==
    pc = "done" =>
      /\ Count(calls, "generation") = 1
      /\ NumSections(prompt) = Len(relevant_chunks)
      /\ Len(CitationLines(result)) = 2 * NumSections(prompt)
      /\ CitationLines(result)
           = CitationLines(Compose(<<>>, relevant_chunks))
      /\ \A n \in 1..NumSections(prompt) :
           LET sec == SectionOf(prompt, n, PromptBound)
               entry == CitationLines(result)[2 * n - 1]
           IN  /\ SecRank(sec) = IntStr(n)
               /\ EntryName(entry) = SecName(sec)
               /\ EntryType(entry) = SecType(sec)
               /\ EntryName(entry) = relevant_chunks[n].name
               /\ Between(CitationLines(result)[2 * n], "  [file] ", " (Lines ")
                    = Between(sec, "File: ", " (Lines ")

C8_Witness ==
    /\ pc = "done"
    /\ Count(answer, "**Retrieved Chunks:**") = 1
    /\ Len(relevant_chunks) = 3
    /\ relevant_chunks[1].name # relevant_chunks[2].name
    /\ relevant_chunks[1].filename # relevant_chunks[3].filename

\* C9: when retrieval yields no Fragments (top_k = 0, or an index with no
\* matches) retrieve returns the empty sequence, the Context Block is the
\* empty string, the generation service is still called and the Answer has
\* a citation section with no entries; the case is not rejected.
C9_ZeroResults ==
    /\ (top_k = 0 /\ pc \in {"loop", "returned"}) => matches = <<>>
    /\ (indexSize = 0 /\ pc \in {"loop", "returned", "generate", "done"})
         => matches = <<>>
    /\ (matches = <<>> /\ Retrieved) => relevant_chunks = <<>>
    /\ (matches = <<>> /\ pc = "loop") =>
         /\ mode = "retrieve" => ENABLED ReturnChunks
         /\ mode = "chat" => ENABLED BuildContext
    /\ (matches = <<>> /\ ContextBuilt) =>
         /\ context = <<>>
         /\ NumSections(prompt) = 0
         /\ SubSeq(prompt, FirstPos(prompt, "RETRIEVED CONTEXT:", 1) + 2,
                    PromptBound) = <<>>
    /\ (matches = <<>> /\ pc = "generate") =>
         ENABLED (Generate /\ pc' = "done")
    /\ (matches = <<>> /\ pc = "failed") =>
         error \in {"EmbeddingError", "IndexError", "GenerationError"}
    /\ (matches = <<>> /\ pc = "done") =>
         /\ Count(calls, "generation") = 1
         /\ result = answer \o CitationHeader
         /\ CitationLines(result) = <<>>

C9_Witness ==
    /\ pc = "done"
    /\ indexSize = 0
    /\ relevant_chunks = <<>>
    /\ answer # <<>>

StageOf(call) ==
    CASE call = "embedding" -> 1
      [] call = "index" -> 2
      [] call = "read" -> 3
      [] call = "generation" -> 4

\* C10: a request is a linear fail-stop pipeline: the embedding service,
\* the index and the generation service are each called at most once and in
\* that order, with the file reads between index and generation; when the
\* embedding, index or generation call fails the call is not retried, no
\* later stage is invoked and the turn returns no answer text.
C10_LinearFailStop ==
    /\ Count(calls, "embedding") <= 1
    /\ Count(calls, "index") <= 1
    /\ Count(calls, "generation") <= 1
    /\ Count(calls, "read") <= top_k
    /\ \A a, b \in 1..Len(calls) : a < b => StageOf(calls[a]) <= StageOf(calls[b])
    /\ Count(calls, "index") = 1 => Count(calls, "embedding") = 1
    /\ Count(calls, "read") >= 1 => Count(calls, "index") = 1
    /\ Count(calls, "generation") = 1 => Count(calls, "index") = 1
    /\ error = "EmbeddingError" => (pc = "failed" /\ calls = <<"embedding">>)
    /\ error = "IndexError" => (pc = "failed" /\ calls = <<"embedding", "index">>)
    /\ error = "GenerationError" =>
         (pc = "failed" /\ calls[Len(calls)] = "generation")
    /\ pc = "failed" =>
         /\ error # "none"
         /\ result = NoResult
         /\ answer = <<>>
         /\ ~ENABLED Next
    /\ pc = "done" <=> result # NoResult

C10_Witness ==
    /\ pc = "failed"
    /\ error = "GenerationError"
    /\ Count(calls, "read") = 2
    /\ Len(relevant_chunks) = 3

====
